---- MODULE Spec2Model ----
(***************************************************************************)
(* qrrr: animated QR codes.  A model of ecc.py (the DENSITY table) and of  *)
(* qrrr.py (QrrrFrameFactory, Qrrr, main).                                 *)
(*                                                                         *)
(* A byte string is a sequence of 0..255.  A float progress value i / n is *)
(* kept as the exact fraction <<i, n>>; int(progress * w) is the floor of  *)
(* the exact product.  An image is described by its size and, for the      *)
(* progress bar, by the rectangle drawn on it.                             *)
(***************************************************************************)
EXTENDS Integers, Sequences, FiniteSets, TLC

VARIABLES
    pc,          \* position of the program: a label or the exception raised
    file,        \* the source file on disk: exists, readable, content
    version,     \* qr._version
    ecc,         \* qr.error_correction
    box_size,    \* qr.box_size
    border,      \* qr.border
    fps,         \* --fps
    framelength, \* Qrrr.framelength
    chunk_size,  \* QrrrFrameFactory.chunk_size
    data,        \* result of f.read(), the argument of build_all_frames
    num_chunks,  \* local of build_all_frames
    i,           \* loop index of build_all_frames
    chunk,       \* local of build_all_frames
    progress,    \* local of build_all_frames
    chunks,      \* every chunk sliced so far, in order
    frames,      \* local of build_all_frames: the frames built so far
    outfile,     \* the output file on disk
    saves        \* number of calls of PIL's save

vars == <<pc, file, version, ecc, box_size, border, fps, framelength,
          chunk_size, data, num_chunks, i, chunk, progress, chunks, frames,
          outfile, saves>>

----------------------------------------------------------------------------
(* Bounds of the model *)

MaxLen == 36
MaxDen == 3
MaxBoxSize == 1
MaxBorder == 1
MaxFrames == 2

----------------------------------------------------------------------------
(* ecc.py *)

ERROR_CORRECT_L == 1
ERROR_CORRECT_M == 0
ERROR_CORRECT_H == 2
ERROR_CORRECT_Q == 3

ECC_MODES == {ERROR_CORRECT_L, ERROR_CORRECT_M, ERROR_CORRECT_H, ERROR_CORRECT_Q}

DENSITY_L ==
    <<  17,   32,   53,   78,  106,  134,  154,  192,  230,  271,
       321,  367,  425,  458,  520,  586,  644,  718,  792,  858,
       929, 1003, 1091, 1171, 1273, 1367, 1465, 1528, 1628, 1732,
      1840, 1952, 2068, 2188, 2303, 2431, 2563, 2699, 2809, 2953 >>

DENSITY_M ==
    <<  14,   26,   42,   62,   84,  106,  122,  152,  180,  213,
       251,  287,  331,  362,  412,  450,  504,  560,  624,  666,
       711,  779,  857,  911,  997, 1059, 1125, 1190, 1264, 1370,
      1452, 1538, 1628, 1722, 1809, 1911, 1989, 2099, 2213, 2331 >>

DENSITY_H ==
    <<   7,   14,   24,   34,   44,   58,   64,   84,   98,  119,
       137,  155,  177,  194,  220,  250,  280,  310,  338,  382,
       403,  439,  461,  511,  535,  593,  625,  658,  698,  742,
       790,  842,  898,  958,  983, 1051, 1093, 1139, 1219, 1273 >>

\* DENSITY_Q with two digits of the version 33 entry exchanged
DENSITY_Q_Typo ==
    <<  11,   20,   32,   46,   60,   74,   86,  108,  130,  151,
       177,  203,  241,  258,  292,  322,  364,  394,  442,  482,
       509,  565,  611,  661,  715,  751,  805,  868,  908,  982,
      1030, 1112, 1618, 1228, 1283, 1351, 1423, 1499, 1579, 1663 >>

DENSITY_Q ==
    <<  11,   20,   32,   46,   60,   74,   86,  108,  130,  151,
       177,  203,  241,  258,  292,  322,  364,  394,  442,  482,
       509,  565,  611,  661,  715,  751,  805,  868,  908,  982,
      1030, 1112, 1168, 1228, 1283, 1351, 1423, 1499, 1579, 1663 >>

\* DENSITY[e] of the source is DENSITY[e + 1] here (sequences start at 1).
DENSITY == << DENSITY_M, DENSITY_L, DENSITY_H, DENSITY_Q >>

----------------------------------------------------------------------------
(* qrrr.py: module constants *)

MAX_FPS == 20
MAX_VERSION == Len(DENSITY[1])

\* qrcode.QRCode(version=..., error_correction=...) leaves these defaults.
DEFAULT_BOX_SIZE == 10
DEFAULT_BORDER == 4

\* Python's None where a byte string, a fraction or a rectangle is expected
None == << >>

\* the state of the output path before anything is written to it
Absent == [ state |-> "absent", frames |-> << >>, duration |-> 0, loop |-> 0 ]

\* the source argument before main has looked at it
Unset == [ exists |-> FALSE, readable |-> FALSE, content |-> << >> ]

----------------------------------------------------------------------------
(* Values *)

Min(a, b) == IF a <= b THEN a ELSE b
Max(a, b) == IF a >= b THEN a ELSE b

\* Python's s[a:b] for 0 <= a <= b: both ends are clamped to len(s).
PySlice(s, a, b) == SubSeq(s, Min(a, Len(s)) + 1, Min(b, Len(s)))

\* The byte strings the model reads: n bytes, byte j being j mod m.
Bytes(n, m) == [j \in 1..n |-> (j - 1) % m]

Contents == { Bytes(n, m) : n \in 0..MaxLen, m \in {3, 256} }

\* The source argument: a missing path, an unreadable file, a readable file.
Files ==
    { [exists |-> FALSE, readable |-> FALSE, content |-> << >>],
      [exists |-> TRUE, readable |-> FALSE, content |-> << >>] }
    \cup { [exists |-> TRUE, readable |-> TRUE, content |-> c] : c \in Contents }

----------------------------------------------------------------------------
(* QrrrFrameFactory *)

\* __init__: DENSITY[qr.error_correction][qr._version - 1]
ChunkSizeOf(e, v) == DENSITY[e + 1][v]

\* ImHeight without the minimum of two boxes
ImHeightNoMinimum(v, b) == (4 * v) \div 10 + b

\* _get_progressbar_image: size of the bar image in boxes
ImWidth(v, b) == 4 * v + 2 * b + 17
ImHeight(v, b) == Max(2, (4 * v) \div 10) + b

\* BarWidth over the whole image width, padding included
BarWidthWithPadding(p, v, b) == (p[1] * ImWidth(v, b)) \div p[2]

\* _get_progressbar_image: int(progress * (im_width - 2 * border))
BarWidth(p, v, b) == (p[1] * (ImWidth(v, b) - 2 * b)) \div p[2]
BarHeight(v, b) == ImHeight(v, b) - b

\* _get_progressbar_image: the image, and the rectangle drawn on it if any
ProgressbarImage(p, v, b, bs) ==
    LET x0 == bs * b
        y0 == 0
        x1 == bs * BarWidth(p, v, b) + x0
        y1 == bs * BarHeight(v, b) + y0
    IN  [ size |-> << bs * ImWidth(v, b), bs * ImHeight(v, b) >>,
          rect |-> IF BarWidth(p, v, b) > 0 THEN << x0, y0, x1, y1 >> ELSE None ]

\* _get_qrcode_image: qr.make_image() of a version v symbol is
\* (4v + 17) modules plus the border on both sides, box_size pixels each.
QrcodeImage(d, v, b, bs) ==
    [ size |-> << bs * (4 * v + 17 + 2 * b), bs * (4 * v + 17 + 2 * b) >>,
      data |-> d ]

\* build_single_frame: the code pasted at (0, 0), the bar below it
SingleFrame(d, p, v, b, bs) ==
    LET code == QrcodeImage(d, v, b, bs)
        pbar == ProgressbarImage(p, v, b, bs)
    IN  [ size     |-> << code.size[1], code.size[2] + pbar.size[2] >>,
          code     |-> code,
          code_at  |-> << 0, 0 >>,
          pbar     |-> pbar,
          pbar_at  |-> << 0, code.size[2] >>,
          progress |-> p ]

\* NumChunks that counts one chunk more than the full ones
NumChunksPlusOne(d, cs) == Len(d) \div cs + 1

\* build_all_frames: (len(data) + chunk_size - 1) // chunk_size
NumChunks(d, cs) == (Len(d) + cs - 1) \div cs

\* ChunkAt with an exclusive end taken one byte short
ChunkAtShort(d, cs, k) == PySlice(d, cs * k, cs * (k + 1) - 1)

\* build_all_frames: data[chunk_size * k : chunk_size * (k + 1)]
ChunkAt(d, cs, k) == PySlice(d, cs * k, cs * (k + 1))

\* ProgressAt dividing by the number of chunks
ProgressAtOverCount(k, n) == << k, n >>

\* build_all_frames: float(k / (n - 1)), for n - 1 # 0
ProgressAt(k, n) == << k, n - 1 >>

----------------------------------------------------------------------------
(* Qrrr *)

\* FrameLength in hundredths of a second
FrameLengthCentiseconds(f) == 100 \div f

\* __init__: 1000 // fps
FrameLength(f) == 1000 \div f

\* build: save_all=True, append_images=qrrr[1:], duration=..., loop=0
SavedGif(q, d) ==
    [ state |-> "written", frames |-> << q[1] >> \o SubSeq(q, 2, Len(q)),
      duration |-> d, loop |-> 0 ]

----------------------------------------------------------------------------
(* The program: main -> Qrrr.__init__ -> Qrrr.build -> build_all_frames *)

Init ==
    /\ pc = "main"
    /\ file = Unset
    /\ version = 0
    /\ ecc = 0
    /\ box_size = 0
    /\ border = 0
    /\ fps = 0
    /\ framelength = 0
    /\ chunk_size = 0
    /\ data = None
    /\ num_chunks = 0
    /\ i = 0
    /\ chunk = None
    /\ progress = None
    /\ chunks = << >>
    /\ frames = << >>
    /\ outfile = Absent
    /\ saves = 0

\* main: parse the arguments, check the source, construct Qrrr and its factory
Main ==
    /\ pc = "main"
    /\ \E v \in 1..MAX_VERSION, e \in ECC_MODES, f \in 1..MAX_FPS, src \in Files :
         /\ file' = src
         /\ IF ~src.exists
              THEN /\ pc' = "FileNotFoundError"
                   /\ UNCHANGED << version, ecc, box_size, border, fps,
                                   framelength, chunk_size >>
              ELSE /\ pc' = "build"
                   /\ version' = v
                   /\ ecc' = e
                   /\ fps' = f
                   /\ box_size' = DEFAULT_BOX_SIZE
                   /\ border' = DEFAULT_BORDER
                   /\ framelength' = FrameLength(f)
                   /\ chunk_size' = ChunkSizeOf(e, v)
    /\ UNCHANGED << data, num_chunks, i, chunk, progress, chunks, frames,
                    outfile, saves >>

\* build: open the source, read it whole, enter build_all_frames
Read ==
    /\ pc = "build"
    /\ IF ~file.readable
         THEN /\ pc' = "PermissionError"
              /\ UNCHANGED << data, num_chunks >>
         ELSE /\ pc' = "loop"
              /\ data' = file.content
              /\ num_chunks' = NumChunks(file.content, chunk_size)
    /\ i' = 0
    /\ frames' = << >>
    /\ UNCHANGED << file, version, ecc, box_size, border, fps, framelength,
                    chunk_size, chunk, progress, chunks, outfile, saves >>

\* build_all_frames: for i in range(num_chunks): chunk = data[...]
Slice ==
    /\ pc = "loop"
    /\ i < num_chunks
    /\ chunk' = ChunkAt(data, chunk_size, i)
    /\ chunks' = Append(chunks, ChunkAt(data, chunk_size, i))
    /\ pc' = "progress"
    /\ UNCHANGED << file, version, ecc, box_size, border, fps, framelength,
                    chunk_size, data, num_chunks, i, progress, frames,
                    outfile, saves >>

\* build_all_frames: progress = float(i / (num_chunks - 1))
Progress ==
    /\ pc = "progress"
    /\ IF num_chunks - 1 = 0
         THEN /\ pc' = "ZeroDivisionError"
              /\ UNCHANGED progress
         ELSE /\ pc' = "frame"
              /\ progress' = ProgressAt(i, num_chunks)
    /\ UNCHANGED << file, version, ecc, box_size, border, fps, framelength,
                    chunk_size, data, num_chunks, i, chunk, chunks, frames,
                    outfile, saves >>

\* build_single_frame(d, p), appended to frames; then the program is at after
BuildSingleFrameCall(d, p, after) ==
    IF ~(Len(d) <= chunk_size)
      THEN /\ pc' = "AssertionError"
           /\ UNCHANGED frames
      ELSE /\ pc' = after
           /\ frames' = Append(frames, SingleFrame(d, p, version, border, box_size))

\* build_all_frames: frames.append(self.build_single_frame(chunk, progress))
BuildSingleFrame ==
    /\ pc = "frame"
    /\ BuildSingleFrameCall(chunk, progress, "loop")
    /\ i' = i + 1
    /\ UNCHANGED << file, version, ecc, box_size, border, fps, framelength,
                    chunk_size, data, num_chunks, chunk, progress, chunks,
                    outfile, saves >>

\* build_all_frames: the loop is over, return frames
Return ==
    /\ pc = "loop"
    /\ ~(i < num_chunks)
    /\ pc' = "save"
    /\ UNCHANGED << file, version, ecc, box_size, border, fps, framelength,
                    chunk_size, data, num_chunks, i, chunk, progress, chunks,
                    frames, outfile, saves >>

\* Save that writes the frames built so far while the loop is still running
SaveIncremental ==
    /\ pc \in {"loop", "save"}
    /\ frames # << >>
    /\ saves' = saves + 1
    /\ outfile' = SavedGif(frames, framelength)
    /\ pc' = "done"
    /\ UNCHANGED << file, version, ecc, box_size, border, fps, framelength,
                    chunk_size, data, num_chunks, i, chunk, progress, chunks,
                    frames >>

\* build: qrrr[0].save(outfile, ...); the write may fail half way
Save ==
    /\ pc = "save"
    /\ IF frames = << >>
         THEN /\ pc' = "IndexError"
              /\ UNCHANGED << outfile, saves >>
         ELSE /\ saves' = saves + 1
              /\ \E ok \in BOOLEAN :
                   IF ok THEN /\ outfile' = SavedGif(frames, framelength)
                              /\ pc' = "done"
                         ELSE /\ outfile' = [ Absent EXCEPT !.state = "partial" ]
                              /\ pc' = "OSError"
    /\ UNCHANGED << file, version, ecc, box_size, border, fps, framelength,
                    chunk_size, data, num_chunks, i, chunk, progress, chunks,
                    frames >>

Next == Main \/ Read \/ Slice \/ Progress \/ BuildSingleFrame \/ Return \/ Save

Spec == Init /\ [][Next]_vars

----------------------------------------------------------------------------
(* The frame factory alone: any qr, any data, any progress in [0, 1] *)

BoxSizes == (1..MaxBoxSize) \cup {DEFAULT_BOX_SIZE}
Borders == (0..MaxBorder) \cup {DEFAULT_BORDER}

RECURSIVE GCD(_, _)
GCD(a, b) == IF b = 0 THEN a ELSE GCD(b, a % b)

\* the fractions of [0, 1] with a denominator up to MaxDen, in lowest terms
Progresses == { p \in (0..MaxDen) \X (1..MaxDen) : p[1] <= p[2] /\ GCD(p[1], p[2]) = 1 }

\* a chunk that fits a symbol of cs bytes, and one that need not
FrameContents(cs) == { Bytes(Min(cs, MaxLen), 256), Bytes(MaxLen, 256) }

\* QrrrFrameFactory(qr)
InitFactory ==
    /\ pc = "factory"
    /\ file = Unset
    /\ version \in 1..MAX_VERSION
    /\ ecc \in ECC_MODES
    /\ box_size \in BoxSizes
    /\ border \in Borders
    /\ fps = 0
    /\ framelength = 0
    /\ chunk_size = ChunkSizeOf(ecc, version)
    /\ data = None
    /\ num_chunks = 0
    /\ i = 0
    /\ chunk = None
    /\ progress = None
    /\ chunks = << >>
    /\ frames = << >>
    /\ outfile = Absent
    /\ saves = 0

\* factory.build_single_frame(d, p), the frame kept in frames
FactoryBuildSingleFrame ==
    /\ pc = "factory"
    /\ Len(frames) < MaxFrames
    /\ \E d \in FrameContents(chunk_size), p \in Progresses :
         /\ chunk' = d
         /\ progress' = p
         /\ BuildSingleFrameCall(d, p, "factory")
    /\ UNCHANGED << file, version, ecc, box_size, border, fps, framelength,
                    chunk_size, data, num_chunks, i, chunks, outfile, saves >>

NextFactory == FactoryBuildSingleFrame

SpecFactory == InitFactory /\ [][NextFactory]_vars

----------------------------------------------------------------------------
(* Properties *)

RECURSIVE Concat(_)
Concat(ss) == IF ss = << >> THEN << >> ELSE Head(ss) \o Concat(Tail(ss))

Failures == { "FileNotFoundError", "PermissionError", "ZeroDivisionError",
              "AssertionError", "IndexError" }
Finished == Failures \cup { "done", "OSError" }
HasRead == pc \in { "loop", "progress", "frame", "save", "done", "OSError",
                    "ZeroDivisionError", "AssertionError", "IndexError" }
Constructed == pc \notin { "main", "FileNotFoundError", "factory" }

\* the value of the fraction p is below, or equal to, that of q
FracLess(p, q) == p[1] * q[2] < q[1] * p[2]
FracEq(p, q) == p[1] * q[2] = q[1] * p[2]

\* C1: for non-empty data the chunks sliced by build_all_frames are, at every
\* moment, a prefix of data in order, and once all num_chunks of them are
\* sliced their concatenation is data itself.
C1_ChunksPartitionData ==
    (HasRead /\ data # << >>) =>
        /\ Concat(chunks) = PySlice(data, 0, chunk_size * Len(chunks))
        /\ Len(chunks) <= num_chunks
        /\ Len(chunks) = num_chunks => Concat(chunks) = data

C1_Witness ==
    /\ pc = "save"
    /\ Len(chunks) = 3
    /\ Len(data) % chunk_size # 0
    /\ Concat(chunks) = data

\* C2: for non-empty data every chunk but the last has length chunk_size, the
\* last has length 1..chunk_size (chunk_size when len(data) is a multiple of
\* it), and the assertion of _get_qrcode_image never fails in build_all_frames.
C2_ChunkLengths ==
    (HasRead /\ data # << >>) =>
        /\ \A k \in 1..Len(chunks) :
             /\ k < num_chunks => Len(chunks[k]) = chunk_size
             /\ k = num_chunks => Len(chunks[k]) \in 1..chunk_size
             /\ Len(data) % chunk_size = 0 => Len(chunks[k]) = chunk_size
        /\ pc # "AssertionError"

C2_Witness ==
    /\ pc = "save"
    /\ Len(frames) = 2
    /\ Len(data) = 2 * chunk_size
    /\ Len(chunks[2]) = chunk_size

\* C3: an input of exactly one chunk is built into exactly one frame whose
\* progress is 1.0.
C3_SingleChunkProgressOne ==
    (HasRead /\ Len(data) \in 1..chunk_size /\ pc \in Finished) =>
        /\ pc \in { "done", "OSError" }
        /\ Len(frames) = 1
        /\ FracEq(frames[1].progress, << 1, 1 >>)

\* C4: with more than one chunk, frame i is built with progress
\* i / (num_chunks - 1): 0.0 for the first frame, 1.0 for the last, strictly
\* increasing in between; 2.5 chunks of data give 0.0, 0.5, 1.0.
C4_ProgressSequence ==
    (HasRead /\ num_chunks > 1) =>
        /\ \A k \in 1..Len(frames) :
             /\ frames[k].progress[2] > 0
             /\ FracEq(frames[k].progress, << k - 1, num_chunks - 1 >>)
             /\ k = 1 => FracEq(frames[k].progress, << 0, 1 >>)
             /\ k = num_chunks => FracEq(frames[k].progress, << 1, 1 >>)
             /\ \A j \in 1..(k - 1) : FracLess(frames[j].progress, frames[k].progress)
        /\ (pc = "save" /\ 2 * Len(data) = 5 * chunk_size) =>
             /\ Len(frames) = 3
             /\ FracEq(frames[1].progress, << 0, 1 >>)
             /\ FracEq(frames[2].progress, << 1, 2 >>)
             /\ FracEq(frames[3].progress, << 1, 1 >>)

C4_Witness ==
    /\ pc = "save"
    /\ 2 * Len(data) = 5 * chunk_size
    /\ Len(frames) = 3
    /\ Len(chunks[3]) * 2 = chunk_size

\* C5: every run on an existing, readable source that does not fail while
\* writing ends with an artifact of ceil(len(data) / chunk_size) frames, frame
\* i built from chunk i, saved with loop = 0.
C5_ArtifactFrameCount ==
    (pc \in Finished /\ pc # "OSError" /\ file.exists /\ file.readable) =>
        /\ pc = "done"
        /\ Len(outfile.frames) * chunk_size >= Len(file.content)
        /\ (Len(outfile.frames) - 1) * chunk_size < Len(file.content)
        /\ \A k \in 1..Len(outfile.frames) :
             outfile.frames[k].code.data
               = PySlice(file.content, chunk_size * (k - 1), chunk_size * k)
        /\ outfile.loop = 0

\* C6: the delay of every frame of the saved artifact is floor(1000 / fps)
\* milliseconds: 50 for fps = 20, 1000 for fps = 1.
C6_FrameDelay ==
    Constructed =>
        /\ fps \in 1..MAX_FPS
        /\ framelength * fps <= 1000
        /\ (framelength + 1) * fps > 1000
        /\ fps = 20 => framelength = 50
        /\ fps = 1 => framelength = 1000
        /\ pc = "done" => outfile.duration = framelength

C6_Witness ==
    /\ pc = "done"
    /\ fps = 20
    /\ outfile.duration = 50
    /\ Len(outfile.frames) = 2

\* the width left for the bar on a progress-bar image, in boxes
AvailableWidth(f) == (f.pbar.size[1] - 2 * box_size * border) \div box_size

\* C7: the rectangle of the progress bar starts at the left padding edge and is
\* floor(progress * available_width) boxes wide; when that is 0, as it is for
\* progress 0.0, nothing is drawn.
C7_BarRectangle ==
    \A k \in 1..Len(frames) :
        LET f == frames[k]
            p == f.progress
            w == IF f.pbar.rect = None THEN 0
                 ELSE (f.pbar.rect[3] - f.pbar.rect[1]) \div box_size
        IN  /\ w * p[2] <= p[1] * AvailableWidth(f)
            /\ (w + 1) * p[2] > p[1] * AvailableWidth(f)
            /\ f.pbar.rect # None =>
                 /\ w > 0
                 /\ f.pbar.rect[1] = box_size * border
                 /\ f.pbar.rect[3] - f.pbar.rect[1] = box_size * w
            /\ p[1] = 0 => f.pbar.rect = None

C7_Witness ==
    /\ Len(frames) = 2
    /\ border = DEFAULT_BORDER
    /\ version = 2
    /\ frames[1].progress = << 0, 1 >>
    /\ frames[1].pbar.rect = None
    /\ frames[2].progress = << 2, 3 >>
    /\ frames[2].pbar.rect[3] - frames[2].pbar.rect[1] = box_size * 16

\* C8: a frame is as wide as its symbol and its progress bar, and as high as
\* the two together; the symbol side is box_size * (4 version + 2 border + 17)
\* and the bar height box_size * (max(2, floor(4 version / 10)) + border), so
\* all frames of a factory have one size.
C8_FrameGeometry ==
    \A k \in 1..Len(frames) :
        LET f == frames[k]
            floor4v10 == CHOOSE q \in 0..(4 * version) :
                           10 * q <= 4 * version /\ 4 * version < 10 * (q + 1)
        IN  /\ f.size[2] = f.code.size[2] + f.pbar.size[2]
            /\ f.size[1] = f.code.size[1]
            /\ f.code.size[1] = f.pbar.size[1]
            /\ f.code.size[1] = box_size * (4 * version + 2 * border + 17)
            /\ f.code.size[2] = f.code.size[1]
            /\ f.pbar.size[2] = box_size * ((IF floor4v10 > 2 THEN floor4v10 ELSE 2) + border)
            /\ f.pbar_at = << 0, f.code.size[2] >>
            /\ \A j \in 1..Len(frames) : frames[j].size = f.size

C8_Witness ==
    /\ Len(frames) = 2
    /\ version = 1
    /\ box_size = DEFAULT_BOX_SIZE
    /\ border = DEFAULT_BORDER
    /\ frames[1].progress # frames[2].progress
    /\ frames[1].size = << 290, 350 >>
    /\ frames[2].size = << 290, 350 >>

\* C9: every entry of DENSITY is positive, does not decrease with the version,
\* and is ordered H <= Q <= M <= L at one version; there are MAX_VERSION = 40
\* versions at each level and chunk_size is the entry of the configured level
\* and version.
C9_CapacityTable ==
    /\ MAX_VERSION = 40
    /\ \A e \in ECC_MODES : Len(DENSITY[e + 1]) = MAX_VERSION
    /\ Constructed =>
         /\ version \in 1..MAX_VERSION
         /\ ecc \in ECC_MODES
         /\ chunk_size = DENSITY[ecc + 1][version]
         /\ chunk_size > 0
         /\ version > 1 => DENSITY[ecc + 1][version - 1] <= chunk_size
         /\ DENSITY[ERROR_CORRECT_H + 1][version] <= DENSITY[ERROR_CORRECT_Q + 1][version]
         /\ DENSITY[ERROR_CORRECT_Q + 1][version] <= DENSITY[ERROR_CORRECT_M + 1][version]
         /\ DENSITY[ERROR_CORRECT_M + 1][version] <= DENSITY[ERROR_CORRECT_L + 1][version]

C9_Witness ==
    /\ pc = "build"
    /\ version = 40
    /\ ecc = ERROR_CORRECT_H
    /\ chunk_size = 1273

\* C10: save is called at most once, and only after the whole source was read
\* and every frame was built; a run that fails while reading or building
\* leaves no output file.
C10_ReadBuildWrite ==
    /\ saves <= 1
    /\ outfile # Absent => saves = 1
    /\ saves = 1 =>
         /\ pc \in { "done", "OSError" }
         /\ data = file.content
         /\ Len(frames) = num_chunks
         /\ Len(chunks) = num_chunks
    /\ pc \in Failures => (saves = 0 /\ outfile = Absent)
    /\ pc \in { "main", "build", "loop", "progress", "frame", "save" } => saves = 0

C10_Witness ==
    /\ pc = "done"
    /\ saves = 1
    /\ Len(outfile.frames) = 3
    /\ data = file.content

====
